---- MODULE Spec2Model ----
(***************************************************************************)
(* A model of the stateless utilities of common-react:                     *)
(*   - the password validator (validatePassword,                           *)
(*     validatePasswordSingleError),                                       *)
(*   - the auth error mapper (mapAuthError, extractAuthError),             *)
(*   - the path utilities (apiUrl, appUrl, withoutBasePath, hasBasePath),  *)
(*   - the auth event logger (logAuthEvent).                               *)
(* Each utility is a pure function; a specification draws its arguments in *)
(* Init and its actions apply the function and record what it returned.    *)
(***************************************************************************)
EXTENDS Integers, Sequences, FiniteSets, TLC

VARIABLES
    op,             \* the last function called ("none" before any call)
    password,       \* validatePassword's argument: a sequence of code points
    policy,         \* validatePassword's argument: a PasswordPolicyConfig
    result,         \* what validatePassword returned
    singleError,    \* what validatePasswordSingleError returned
    errorCode,      \* mapAuthError's first argument
    defaultMessage, \* mapAuthError's second argument
    mapped,         \* what mapAuthError returned
    data,           \* extractAuthError's argument: a parsed response body
    extracted,      \* what extractAuthError returned
    isBrowser,      \* typeof window !== 'undefined'
    basePathEnv,    \* process.env.NEXT_PUBLIC_BASE_PATH
    path,           \* the argument of the path utilities
    apiUrlResult,   \* what apiUrl(path) returned
    appUrlResult,   \* what appUrl(path) returned
    withoutBasePathResult,  \* what withoutBasePath(path) returned
    hasBasePathResult,      \* what hasBasePath(path) returned
    roundTripResult,        \* what withoutBasePath returned on appUrl(path) and on apiUrl(path)
    context,        \* logAuthEvent's argument: an AuthEventContext
    logCalls,       \* the calls the logger has received, in order
    headers,        \* the argument of getClientIP and getUserAgent
    headerResult,   \* what getClientIP and getUserAgent returned
    window,         \* the environment of the logger: env variables, cookie, listeners, timers
    logShipper,     \* the module's singleton ClientLogShipper, or null
    shipped,        \* what the logger has done so far: logs written, batches sent and lost
    authProvider    \* AuthProvider's props and environment, and what it rendered

passwordVars == <<password, policy, result, singleError>>
mapperVars == <<errorCode, defaultMessage, mapped>>
extractVars == <<data, extracted>>
pathVars == <<isBrowser, basePathEnv, path, apiUrlResult, appUrlResult,
              withoutBasePathResult, hasBasePathResult, roundTripResult>>
eventVars == <<context, logCalls>>

headerVars == <<headers, headerResult>>
shipperVars == <<window, logShipper, shipped>>
providerVars == <<authProvider>>

vars == <<op, passwordVars, mapperVars, extractVars, pathVars, eventVars, headerVars,
          shipperVars, providerVars>>

(***************************************************************************)
(* Bounds of the model.                                                    *)
(***************************************************************************)
\* Passwords have at most MaxLen code points.
MaxLen == 3
\* policy.minLength ranges over 0..MaxMinLength.
MaxMinLength == 3
\* Paths have at most MaxPathLen characters, a basePath at most MaxBasePathLen.
MaxPathLen == 4
MaxBasePathLen == 2
\* An X-Forwarded-For value has at most MaxHeaderLen characters.
MaxHeaderLen == 3
\* A run of the logger writes at most MaxLogs logs.
MaxLogs == 11

(***************************************************************************)
(* JavaScript values. A value is a tag and a payload: the payload of a     *)
(* string is its text, of a function or an object its name.                *)
(***************************************************************************)
JSUndefined == [t |-> "undefined", v |-> ""]
JSNull == [t |-> "null", v |-> ""]
JSString(s) == [t |-> "string", v |-> s]
JSFunction(name) == [t |-> "function", v |-> name]
JSObject(name) == [t |-> "object", v |-> name]
\* A number is held by its decimal text, which is also its property key.
JSNumber(n) == [t |-> "number", v |-> ToString(n)]
JSBoolean(b) == [t |-> "boolean", v |-> IF b THEN "true" ELSE "false"]
\* What a record holds for a property the object does not have.
JSAbsent == [t |-> "absent", v |-> ""]

\* ToBoolean: undefined, null, the empty string, 0 and false are falsy; every
\* function and object is truthy.
Truthy(x) ==
    CASE x.t = "undefined" -> FALSE
      [] x.t = "null" -> FALSE
      [] x.t = "string" -> x.v # ""
      [] x.t = "number" -> x.v # "0"
      [] x.t = "boolean" -> x.v = "true"
      [] OTHER -> TRUE

\* typeof x
TypeOf(x) == IF x.t = "null" THEN "object" ELSE x.t

\* obj.key on a parsed JSON object: the property, or undefined when it has none.
GetProp(obj, key) ==
    IF key \in DOMAIN obj /\ obj[key].t # "absent" THEN obj[key] ELSE JSUndefined

\* a || b
JSOr(a, b) == IF Truthy(a) THEN a ELSE b

(***************************************************************************)
(* Characters. A password is a sequence of code points, each named by a    *)
(* string; the tables give a code point's Unicode general category and the *)
(* number of UTF-16 code units a JavaScript string spends on it.           *)
(***************************************************************************)
Chars ==
    { "A",              \* U+0041 LATIN CAPITAL LETTER A
      "a",              \* U+0061 LATIN SMALL LETTER A
      "1",              \* U+0031 DIGIT ONE
      "GREEK_DELTA",    \* U+0394 GREEK CAPITAL LETTER DELTA
      "greek_delta",    \* U+03B4 GREEK SMALL LETTER DELTA
      "ARABIC_ONE",     \* U+0661 ARABIC-INDIC DIGIT ONE
      "CJK",            \* U+4E2D a CJK ideograph: a letter with no case
      "SPACE",          \* U+0020 SPACE
      "TAB",            \* U+0009 CHARACTER TABULATION
      "!",              \* U+0021 EXCLAMATION MARK
      "EMOJI" }         \* U+1F600 GRINNING FACE

GeneralCategory(c) ==
    CASE c \in {"A", "GREEK_DELTA"} -> "Lu"
      [] c \in {"a", "greek_delta"} -> "Ll"
      [] c = "CJK" -> "Lo"
      [] c \in {"1", "ARABIC_ONE"} -> "Nd"
      [] c = "SPACE" -> "Zs"
      [] c = "TAB" -> "Cc"
      [] c = "!" -> "Po"
      [] c = "EMOJI" -> "So"

\* The code points of the Basic Latin block.
IsAscii(c) == c \in {"A", "a", "1", "SPACE", "TAB", "!"}

\* A code point above U+FFFF is a surrogate pair in a JavaScript string.
Utf16Units(c) == IF c = "EMOJI" THEN 2 ELSE 1

RECURSIVE Utf16Length(_)
\* String.prototype.length: the number of UTF-16 code units.
Utf16Length(s) == IF s = <<>> THEN 0 ELSE Utf16Units(Head(s)) + Utf16Length(Tail(s))

\* /\p{...}/u.test(s): under the u flag the pattern is matched against code points,
\* and the test holds when some code point of s has one of the categories.
RegexTest(categories, s) == \E i \in 1..Len(s) : GeneralCategory(s[i]) \in categories

\* /[^\p{...}]/u.test(s): some code point of s has none of the categories.
RegexTestNegated(categories, s) ==
    \E i \in 1..Len(s) : GeneralCategory(s[i]) \notin categories

\* The categories of the major classes \p{L} and \p{N}.
LetterCategories == {"Lu", "Ll", "Lt", "Lm", "Lo"}
NumberCategories == {"Nd", "Nl", "No"}

(***************************************************************************)
(* The password validator.                                                 *)
(***************************************************************************)
LengthMessage(minLength) ==
    "Password must be at least " \o ToString(minLength) \o " characters long"
UppercaseMessage == "Password must contain at least one uppercase letter"
LowercaseMessage == "Password must contain at least one lowercase letter"
NumberMessage == "Password must contain at least one number"
SymbolMessage == "Password must contain at least one symbol (special character)"

\* Variant of hasUpper with the ASCII range instead of the category: /[A-Z]/.
hasUpper_Ascii(pw) ==
    \E i \in 1..Len(pw) : IsAscii(pw[i]) /\ GeneralCategory(pw[i]) = "Lu"
\* /\p{Lu}/u.test(password)
hasUpper(pw) == RegexTest({"Lu"}, pw)
\* /\p{Ll}/u.test(password)
hasLower(pw) == RegexTest({"Ll"}, pw)
\* /\p{N}/u.test(password)
hasNumber(pw) == RegexTest(NumberCategories, pw)
\* Variant of hasSymbol with ASCII ranges instead of categories: /[^A-Za-z0-9 ]/.
hasSymbol_Ascii(pw) ==
    \E i \in 1..Len(pw) :
        ~(IsAscii(pw[i]) /\ GeneralCategory(pw[i]) \in {"Lu", "Ll", "Nd", "Zs"})
\* /[^\p{L}\p{N}\p{Zs}]/u.test(password)
hasSymbol(pw) == RegexTestNegated(LetterCategories \cup NumberCategories \cup {"Zs"}, pw)

\* Variant of tooShort with the comparison off by one: password.length <= minLength.
tooShort_Lte(pw, minLength) == Utf16Length(pw) <= minLength
\* password.length < policy.minLength
tooShort(pw, minLength) == Utf16Length(pw) < minLength

\* Variant of PushIf that stops at the first violated rule.
PushIf_FirstOnly(errors, cond, message) ==
    IF cond /\ errors = <<>> THEN Append(errors, message) ELSE errors
\* if (cond) { errors.push(message) }
PushIf(errors, cond, message) == IF cond THEN Append(errors, message) ELSE errors

\* Variant of isValidOf with the comparison off by one: errors.length <= 1.
isValidOf_OffByOne(errors) == Len(errors) <= 1
\* errors.length === 0
isValidOf(errors) == Len(errors) = 0

validatePassword(pw, pol) ==
    LET e0 == <<>>
        e1 == PushIf(e0, tooShort(pw, pol.minLength), LengthMessage(pol.minLength))
        e2 == PushIf(e1, pol.requireUppercase /\ ~hasUpper(pw), UppercaseMessage)
        e3 == PushIf(e2, pol.requireLowercase /\ ~hasLower(pw), LowercaseMessage)
        e4 == PushIf(e3, pol.requireNumber /\ ~hasNumber(pw), NumberMessage)
        errors == PushIf(e4, pol.requireSymbol /\ ~hasSymbol(pw), SymbolMessage)
    IN  [isValid |-> isValidOf(errors), errors |-> errors]

\* Variant of validatePasswordSingleError that returns the last message.
validatePasswordSingleError_Last(pw, pol) ==
    LET res == validatePassword(pw, pol)
    IN  IF res.isValid THEN JSNull ELSE JSString(res.errors[Len(res.errors)])

validatePasswordSingleError(pw, pol) ==
    LET res == validatePassword(pw, pol)
    IN  IF res.isValid
        THEN JSNull
        ELSE IF Len(res.errors) > 0
             THEN JSOr(JSString(res.errors[1]), JSNull)
             ELSE JSNull

(***************************************************************************)
(* The auth error mapper.                                                  *)
(***************************************************************************)
GenericFallback == "An error occurred. Please try again."

\* Variant of errorMap with a message of its own for csrf_token_invalid.
errorMap_CsrfInvalidReworded ==
    [ invalid_credentials |-> "Invalid email or password. Please check your credentials and try again.",
      invalid_email |-> "Please enter a valid email address.",
      invalid_password |-> "Password does not meet requirements. Please check the password policy.",
      user_already_exists |-> "An account with this email already exists. Please sign in instead.",
      email_already_registered |-> "An account with this email already exists. Please sign in instead.",
      csrf_token_invalid |-> "Security token invalid. Please refresh the page and try again.",
      csrf_token_missing |-> "Security token missing. Please refresh the page and try again.",
      csrf_token_expired |-> "Security token expired. Please refresh the page and try again.",
      rate_limit_exceeded |-> "Too many attempts. Please wait a moment and try again.",
      account_locked |-> "Account temporarily locked due to multiple failed login attempts. Please try again in 15 minutes.",
      account_suspended |-> "Your account has been suspended. Please contact support for assistance.",
      service_unavailable |-> "Authentication service is temporarily unavailable. Please try again in a moment.",
      internal_error |-> "An unexpected error occurred. Please try again.",
      network_error |-> "Network error. Please check your connection and try again.",
      timeout |-> "Request timed out. Please try again." ]

\* The own properties of the object literal errorMap.
errorMap ==
    [ invalid_credentials |-> "Invalid email or password. Please check your credentials and try again.",
      invalid_email |-> "Please enter a valid email address.",
      invalid_password |-> "Password does not meet requirements. Please check the password policy.",
      user_already_exists |-> "An account with this email already exists. Please sign in instead.",
      email_already_registered |-> "An account with this email already exists. Please sign in instead.",
      csrf_token_invalid |-> "Security token expired. Please refresh the page and try again.",
      csrf_token_missing |-> "Security token missing. Please refresh the page and try again.",
      csrf_token_expired |-> "Security token expired. Please refresh the page and try again.",
      rate_limit_exceeded |-> "Too many attempts. Please wait a moment and try again.",
      account_locked |-> "Account temporarily locked due to multiple failed login attempts. Please try again in 15 minutes.",
      account_suspended |-> "Your account has been suspended. Please contact support for assistance.",
      service_unavailable |-> "Authentication service is temporarily unavailable. Please try again in a moment.",
      internal_error |-> "An unexpected error occurred. Please try again.",
      network_error |-> "Network error. Please check your connection and try again.",
      timeout |-> "Request timed out. Please try again." ]

\* errorMap is an ordinary object, so its prototype is Object.prototype: a property
\* read that finds no own property finds these inherited ones.
ObjectPrototype ==
    [ constructor |-> JSFunction("Object"),
      toString |-> JSFunction("Object.prototype.toString"),
      toLocaleString |-> JSFunction("Object.prototype.toLocaleString"),
      valueOf |-> JSFunction("Object.prototype.valueOf"),
      hasOwnProperty |-> JSFunction("Object.prototype.hasOwnProperty"),
      isPrototypeOf |-> JSFunction("Object.prototype.isPrototypeOf"),
      propertyIsEnumerable |-> JSFunction("Object.prototype.propertyIsEnumerable"),
      __proto__ |-> JSObject("Object.prototype") ]

\* errorMap[key]: the own property, else the inherited one, else undefined. The
\* key is compared as it is: no trimming, no case folding.
errorMapGet(key) ==
    IF key \in DOMAIN errorMap THEN JSString(errorMap[key])
    ELSE IF key \in DOMAIN ObjectPrototype THEN ObjectPrototype[key]
    ELSE JSUndefined

\* Variant of mapAuthError that ignores defaultMessage when the code is missing.
mapAuthError_NoDefaultWhenAbsent(code, default) ==
    IF ~Truthy(code)
    THEN JSString(GenericFallback)
    ELSE JSOr(errorMapGet(code.v), JSOr(default, JSString(GenericFallback)))

\* Variant of mapAuthError in which a supplied defaultMessage wins over the table.
mapAuthError_DefaultFirst(code, default) ==
    IF ~Truthy(code)
    THEN JSOr(default, JSString(GenericFallback))
    ELSE JSOr(default, JSOr(errorMapGet(code.v), JSString(GenericFallback)))

mapAuthError(code, default) ==
    IF ~Truthy(code)
    THEN JSOr(default, JSString(GenericFallback))
    ELSE JSOr(errorMapGet(code.v), JSOr(default, JSString(GenericFallback)))


\* What extractAuthError returns: null, or an object { code, message }.
ExtractedNull == [t |-> "null", code |-> JSUndefined, message |-> JSUndefined]
Extracted(code, message) == [t |-> "object", code |-> code, message |-> message]

\* Variant of extractFromString that reads the string as a code and maps it.
extractFromString_Mapped(error) == Extracted(error, mapAuthError(error, JSUndefined))

\* if (typeof error === 'string') return { code: 'unknown', message: error }
extractFromString(error) == Extracted(JSString("unknown"), error)

\* if (typeof error === 'object' && error !== null) { ... }
extractFromObject(error) ==
    LET code == JSOr(GetProp(error, "code"), JSString("unknown"))
        message == JSOr(GetProp(error, "message"), mapAuthError(code, JSUndefined))
    IN  Extracted(code, mapAuthError(code, message))

\* Variant of extractAuthError that reports a missing error as an unknown one.
extractAuthError_MissingErrorIsUnknown(d) ==
    IF ~Truthy(d) \/ TypeOf(d) # "object"
    THEN ExtractedNull
    ELSE LET error == GetProp(d, "error")
         IN  IF ~Truthy(error)
             THEN Extracted(JSString("unknown"), JSString(GenericFallback))
             ELSE IF TypeOf(error) = "string" THEN extractFromString(error)
             ELSE IF TypeOf(error) = "object" /\ error.t # "null"
                  THEN extractFromObject(error)
             ELSE ExtractedNull

extractAuthError(d) ==
    IF ~Truthy(d) \/ TypeOf(d) # "object"
    THEN ExtractedNull
    ELSE LET error == GetProp(d, "error")
         IN  IF ~Truthy(error) THEN ExtractedNull
             ELSE IF TypeOf(error) = "string" THEN extractFromString(error)
             ELSE IF TypeOf(error) = "object" /\ error.t # "null"
                  THEN extractFromObject(error)
             ELSE ExtractedNull

(***************************************************************************)
(* The path utilities. A string is the sequence of its characters; the     *)
(* environment variable is unset or holds a string.                        *)
(***************************************************************************)
EnvUnset == [t |-> "undefined", v |-> <<>>]
EnvString(s) == [t |-> "string", v |-> s]

\* Variant of startsWith that holds of the whole string only.
startsWith_WholeString(s, prefix) == s = prefix

\* String.prototype.startsWith(prefix)
startsWith(s, prefix) ==
    /\ Len(prefix) <= Len(s)
    /\ SubSeq(s, 1, Len(prefix)) = prefix

\* String.prototype.slice(start), 0 <= start
slice(s, start) == SubSeq(s, start + 1, Len(s))

\* process.env.NEXT_PUBLIC_BASE_PATH || '' : the same on the server and in the
\* browser.
getBasePath ==
    IF ~isBrowser
    THEN IF basePathEnv.t = "string" /\ basePathEnv.v # <<>> THEN basePathEnv.v ELSE <<>>
    ELSE IF basePathEnv.t = "string" /\ basePathEnv.v # <<>> THEN basePathEnv.v ELSE <<>>

\* path.startsWith('/') ? path : `/${path}`
normalizedPath(p) == IF startsWith(p, <<"/">>) THEN p ELSE <<"/">> \o p

apiUrl(p) ==
    LET basePath == getBasePath
    IN  IF basePath # <<>> THEN basePath \o normalizedPath(p) ELSE normalizedPath(p)

appUrl_NotNormalized(p) ==
    LET basePath == getBasePath
    IN  IF basePath # <<>> THEN basePath \o p ELSE p

appUrl(p) ==
    LET basePath == getBasePath
    IN  IF basePath # <<>> THEN basePath \o normalizedPath(p) ELSE normalizedPath(p)

withoutBasePath_NoRoot(p) ==
    LET basePath == getBasePath
    IN  IF basePath = <<>> THEN p
        ELSE IF startsWith(p, basePath) THEN slice(p, Len(basePath))
        ELSE p

withoutBasePath(p) ==
    LET basePath == getBasePath
    IN  IF basePath = <<>> THEN p
        ELSE IF startsWith(p, basePath)
             THEN LET without == slice(p, Len(basePath))
                  IN  IF without # <<>> THEN without ELSE <<"/">>
        ELSE p

hasBasePath(p) ==
    LET basePath == getBasePath
    IN  IF basePath = <<>> THEN FALSE ELSE startsWith(p, basePath)

(***************************************************************************)
(* The auth event logger. An event type is the sequence of the words that  *)
(* its name joins with '_' ('login_failure' is <<"login", "failure">>); no *)
(* word holds 'failure' inside it and 'failure' spans no two words, so a   *)
(* name includes 'failure' exactly when one of its words is "failure".     *)
(* A log context is a function from the keys it has to their values.       *)
(***************************************************************************)
ContextNotCalled == [t |-> "(not called)"]

\* eventType.includes('failure')
includesFailure(eventType) == \E i \in 1..Len(eventType) : eventType[i] = "failure"

\* ...(value && { key: value })
SpreadIf(value, key) == IF Truthy(value) THEN key :> value ELSE <<>>

logContext_WithTimestamp(ctx) ==
    ("eventType" :> ctx.eventType) @@ ("appName" :> ctx.appName)
        @@ SpreadIf(GetProp(ctx, "userId"), "user_id")
        @@ SpreadIf(GetProp(ctx, "result"), "result")
        @@ SpreadIf(GetProp(ctx, "errorCode"), "errorCode")
        @@ SpreadIf(GetProp(ctx, "errorMessage"), "errorMessage")
        @@ SpreadIf(GetProp(ctx, "endpoint"), "endpoint")
        @@ SpreadIf(GetProp(ctx, "requestId"), "requestId")
        @@ SpreadIf(GetProp(ctx, "timestamp"), "timestamp")

logContextOf(ctx) ==
    ("eventType" :> ctx.eventType) @@ ("appName" :> ctx.appName)
        @@ SpreadIf(GetProp(ctx, "userId"), "user_id")
        @@ SpreadIf(GetProp(ctx, "result"), "result")
        @@ SpreadIf(GetProp(ctx, "errorCode"), "errorCode")
        @@ SpreadIf(GetProp(ctx, "errorMessage"), "errorMessage")
        @@ SpreadIf(GetProp(ctx, "endpoint"), "endpoint")
        @@ SpreadIf(GetProp(ctx, "requestId"), "requestId")

logLevel_ResultOnly(ctx) ==
    IF GetProp(ctx, "result") = JSString("failure") THEN "error" ELSE "info"

\* logger.error for a failure or an error, logger.info otherwise
logLevel(ctx) ==
    IF \/ GetProp(ctx, "result") = JSString("failure")
       \/ includesFailure(ctx.eventType)
       \/ ctx.eventType = <<"auth", "error">>
    THEN "error"
    ELSE "info"

\* The call the logger receives from logAuthEvent(ctx).
logAuthEvent(ctx) ==
    [level |-> logLevel(ctx), message |-> "Authentication event", context |-> logContextOf(ctx)]

(***************************************************************************)
(* The header readers getClientIP and getUserAgent. A header value is a    *)
(* string (the sequence of its characters), null, or undefined (what       *)
(* reading a key that a record does not have gives).                       *)
(***************************************************************************)
HeaderUndefined == [t |-> "undefined", v |-> <<>>]
HeaderNull == [t |-> "null", v |-> <<>>]
HeaderString(s) == [t |-> "string", v |-> s]

\* ToBoolean of a header value: only a non-empty string is truthy.
HeaderTruthy(x) == x.t = "string" /\ x.v # <<>>

\* a || b
HeaderOr(a, b) == IF HeaderTruthy(a) THEN a ELSE b

\* The keys a headers argument may hold, each header in three letter cases.
ForwardedForKeys == {"x-forwarded-for", "X-Forwarded-For", "X-FORWARDED-FOR"}
RealIPKeys == {"x-real-ip", "X-Real-IP", "X-REAL-IP"}
UserAgentKeys == {"user-agent", "User-Agent", "USER-AGENT"}
HeaderKeys == ForwardedForKeys \cup RealIPKeys \cup UserAgentKeys

\* headers[key], for a record
RecordGet(h, key) == h.entries[key]

\* headers.get(name), for a Headers object (which keeps its names in lower case):
\* null when the header is not there.
HeadersGet(h, name) ==
    IF h.entries[name].t = "undefined" THEN HeaderNull ELSE h.entries[name]

\* s.split(',')[0]
splitFirst(s) ==
    LET commas == {i \in 1..Len(s) : s[i] = ","}
    IN  IF commas = {} THEN s
        ELSE SubSeq(s, 1, (CHOOSE i \in commas : \A j \in commas : i <= j) - 1)

\* String.prototype.trim()
RECURSIVE trimStart(_)
trimStart(s) == IF s # <<>> /\ Head(s) = " " THEN trimStart(Tail(s)) ELSE s

RECURSIVE trimEnd(_)
trimEnd(s) ==
    IF s # <<>> /\ s[Len(s)] = " " THEN trimEnd(SubSeq(s, 1, Len(s) - 1)) ELSE s

trim(s) == trimEnd(trimStart(s))

getClientIP(h) ==
    IF h.kind = "Headers"
    THEN LET forwardedFor == HeadersGet(h, "x-forwarded-for")
         IN  IF HeaderTruthy(forwardedFor)
             THEN trim(splitFirst(forwardedFor.v))
             ELSE HeaderOr(HeadersGet(h, "x-real-ip"), HeaderString(<<>>)).v
    ELSE LET forwardedFor ==
                HeaderOr(RecordGet(h, "x-forwarded-for"), RecordGet(h, "X-Forwarded-For"))
         IN  IF HeaderTruthy(forwardedFor)
             THEN trim(splitFirst(forwardedFor.v))
             ELSE HeaderOr(HeaderOr(RecordGet(h, "x-real-ip"), RecordGet(h, "X-Real-IP")),
                           HeaderString(<<>>)).v

getUserAgent(h) ==
    IF h.kind = "Headers"
    THEN HeaderOr(HeadersGet(h, "user-agent"), HeaderString(<<>>)).v
    ELSE HeaderOr(HeaderOr(RecordGet(h, "user-agent"), RecordGet(h, "User-Agent")),
                  HeaderString(<<>>)).v

(***************************************************************************)
(* The logger's client-side log shipping. The state of the module is held  *)
(* in three records:                                                       *)
(*   window     - what the browser holds: whether there is a window, the   *)
(*                two env variables, document.cookie (the sequence of its  *)
(*                cookies), whether navigator.sendBeacon exists, whether   *)
(*                JSON.stringify rejects the contexts the application logs,*)
(*                the number of listeners registered for each unload event *)
(*                and the set of pending timers;                           *)
(*   logShipper - the singleton: null, or a ClientLogShipper with its      *)
(*                endpoint, logQueue and flushTimer (0 for null);          *)
(*   shipped    - the history: the number of logs written, the number of   *)
(*                ClientLogShipper instances constructed, the batches      *)
(*                handed to sendBeacon or fetch, the batches taken off the *)
(*                queue and never handed to either, and the number of      *)
(*                flush() promises that were rejected.                     *)
(* A log is the number of its write: logs are written 1, 2, 3, ...         *)
(* The operators below take and return the three records together.         *)
(***************************************************************************)
BATCH_SIZE == 10

NoShipper == [t |-> "null"]
ClientLogShipper(endpoint) ==
    [t |-> "object", endpoint |-> endpoint, logQueue |-> <<>>, flushTimer |-> 0]

NothingShipped == [written |-> 0, instances |-> 0, sent |-> <<>>, lost |-> <<>>, rejections |-> 0]

EnvNull == [t |-> "null", v |-> <<>>]

\* a || b on env values: a when it is a non-empty string, b otherwise. The
\* operand `typeof process !== 'undefined' && process.env?.X` is process.env.X,
\* process being defined wherever the env variables are.
EnvOr(a, b) == IF a.t = "string" /\ a.v # <<>> THEN a ELSE b

getLogShippingEndpoint(w) ==
    LET url == EnvOr(w.NEXT_PUBLIC_LOG_SHIPPING_URL, w.REACT_APP_LOG_SHIPPING_URL)
    IN  IF url.t = "string" /\ url.v # <<>> /\ trim(url.v) # <<>>
        THEN EnvString(trim(url.v))
        ELSE EnvNull

\* decodeURIComponent(value): the decoded text, or a URIError for a malformed
\* escape; undefined (a cookie without '=') is decoded as the text 'undefined'.
decodeURIComponent(value) ==
    CASE value = "req-1" -> [throws |-> FALSE, value |-> "req-1"]
      [] value = "req%2D1" -> [throws |-> FALSE, value |-> "req-1"]
      [] value = "(undefined)" -> [throws |-> FALSE, value |-> "undefined"]
      [] value = "%" -> [throws |-> TRUE, value |-> "URIError"]
      [] value = "%E0%A4%A" -> [throws |-> TRUE, value |-> "URIError"]
      [] OTHER -> [throws |-> FALSE, value |-> value]

\* getRequestIdFromCookie(): the decoded value of the first cookie named
\* x-request-id, null when there is none.
RECURSIVE getRequestIdFromCookie(_)
getRequestIdFromCookie(cookies) ==
    IF cookies = <<>> THEN [throws |-> FALSE, value |-> "(null)"]
    ELSE IF Head(cookies).name = "x-request-id" THEN decodeURIComponent(Head(cookies).value)
    ELSE getRequestIdFromCookie(Tail(cookies))

\* setTimeout: a handle that no pending timer has.
NewTimer(timers) == CHOOSE id \in 1..(Cardinality(timers) + 1) : id \notin timers

\* flush(): nothing on an empty queue; otherwise the timer is cleared, the queue
\* is taken as the batch, and the batch is handed to sendBeacon or to fetch --
\* unless reading the cookie throws (outside the try: the promise is rejected) or
\* JSON.stringify throws (inside the try: swallowed).
flush(st) ==
    LET ls == st.logShipper
    IN  IF ls.logQueue = <<>> THEN st
        ELSE
            LET timers == IF ls.flushTimer # 0
                          THEN st.window.timers \ {ls.flushTimer}
                          ELSE st.window.timers
                batch == ls.logQueue
                cleared == [ls EXCEPT !.logQueue = <<>>, !.flushTimer = 0]
                w == [st.window EXCEPT !.timers = timers]
                requestId == getRequestIdFromCookie(st.window.cookie)
            IN  IF requestId.throws
                THEN [window |-> w, logShipper |-> cleared,
                      shipped |-> [st.shipped EXCEPT !.lost = Append(@, batch),
                                                     !.rejections = @ + 1]]
                ELSE IF st.window.circular
                THEN [window |-> w, logShipper |-> cleared,
                      shipped |-> [st.shipped EXCEPT !.lost = Append(@, batch)]]
                ELSE [window |-> w, logShipper |-> cleared,
                      shipped |-> [st.shipped EXCEPT !.sent =
                            Append(@, [logs |-> batch,
                                       via |-> IF st.window.sendBeacon THEN "sendBeacon"
                                               ELSE "fetch"])]]

\* Variant of addLog that schedules a flush on every log short of the batch size.
addLog_AlwaysSchedules(st, log) ==
    LET pushed == [st EXCEPT !.logShipper.logQueue = Append(@, log)]
    IN  IF Len(pushed.logShipper.logQueue) >= BATCH_SIZE THEN flush(pushed)
        ELSE LET id == NewTimer(pushed.window.timers)
             IN  [pushed EXCEPT !.window.timers = @ \cup {id},
                                !.logShipper.flushTimer = id]

addLog(st, log) ==
    LET pushed == [st EXCEPT !.logShipper.logQueue = Append(@, log)]
    IN  IF Len(pushed.logShipper.logQueue) >= BATCH_SIZE THEN flush(pushed)
        ELSE IF pushed.logShipper.flushTimer = 0
        THEN LET id == NewTimer(pushed.window.timers)
             IN  [pushed EXCEPT !.window.timers = @ \cup {id},
                                !.logShipper.flushTimer = id]
        ELSE pushed

forceFlush(st) == IF Len(st.logShipper.logQueue) > 0 THEN flush(st) ELSE st

\* getLogShipper(): the state after the call; the call returns its logShipper
\* unless there is no window or no endpoint, when it returns null.
getLogShipperReturnsNull(st) ==
    \/ ~st.window.isBrowser
    \/ getLogShippingEndpoint(st.window).t = "null"

getLogShipper(st) ==
    IF getLogShipperReturnsNull(st) THEN st
    ELSE IF st.logShipper.t = "null"
    THEN [st EXCEPT !.logShipper = ClientLogShipper(getLogShippingEndpoint(st.window).v),
                    !.shipped.instances = @ + 1,
                    !.window.listeners.beforeunload = @ + 1,
                    !.window.listeners.pagehide = @ + 1]
    ELSE st

\* The write of one log: on the server nothing is shipped; in the browser the
\* write callback ships the log when getLogShipper() gives a shipper.
write(st, log) ==
    LET counted == [st EXCEPT !.shipped.written = @ + 1]
    IN  IF ~st.window.isBrowser THEN counted
        ELSE IF getLogShipperReturnsNull(counted) THEN getLogShipper(counted)
        ELSE addLog(getLogShipper(counted), log)

\* A listener of beforeunload or pagehide: logShipper?.forceFlush()
unloadListener(st) == IF st.logShipper.t = "null" THEN st ELSE forceFlush(st)

(***************************************************************************)
(* AuthProvider. An origin and a redirect URI are sequences of the pieces  *)
(* the code looks for: an origin is its scheme ("http://" or "https://"),  *)
(* the pieces of its host and, if any, its port (":3000"), so that         *)
(* 'http://localhost.evil.com' is <<"http://", "localhost", ".evil.com">>  *)
(* and starts with 'http://localhost' as <<"http://", "localhost">>; a     *)
(* redirect URI contains '/auth/callback' when that is one of its pieces.  *)
(***************************************************************************)
NoText == [t |-> "undefined", v |-> <<>>]
Text(s) == [t |-> "string", v |-> s]
TextTruthy(x) == x.t = "string" /\ x.v # <<>>

\* s.includes(piece)
includes(s, piece) == \E i \in 1..Len(s) : s[i] = piece

isSecureOrigin(ap) ==
    IF ~ap.hasWindow THEN FALSE
    ELSE IF startsWith(ap.origin, <<"https://">>) THEN TRUE
    ELSE IF \/ startsWith(ap.origin, <<"http://", "localhost">>)
            \/ startsWith(ap.origin, <<"http://", "127.0.0.1">>)
         THEN TRUE
    ELSE FALSE

\* config.redirectUri || (typeof window !== 'undefined' ? origin + '/callback' : '')
effectiveRedirectUri(ap) ==
    IF TextTruthy(ap.config.redirectUri) THEN ap.config.redirectUri.v
    ELSE IF ap.hasWindow THEN ap.origin \o <<"/callback">>
    ELSE <<>>

isUsingIAMService(ap) == includes(effectiveRedirectUri(ap), "/auth/callback")

\* AuthProvider({children, config}): what is rendered and what the console gets.
AuthProvider(ap) ==
    LET secure == isSecureOrigin(ap)
        hasAuth0Config == TextTruthy(ap.config.domain) /\ TextTruthy(ap.config.clientId)
        usingIAMService == isUsingIAMService(ap)
    IN  IF usingIAMService \/ ~hasAuth0Config
        THEN [ap EXCEPT !.rendered = "children",
                        !.console = IF ap.nodeEnv = "development" /\ usingIAMService
                                    THEN Append(@, "info") ELSE @]
        ELSE IF ~secure
        THEN [ap EXCEPT !.rendered = "children", !.console = Append(@, "warn")]
        ELSE [ap EXCEPT !.rendered = "Auth0ProviderBase"]

(***************************************************************************)
(* The inputs.                                                             *)
(***************************************************************************)
Passwords == UNION { [1..n -> Chars] : n \in 0..MaxLen }

Policies ==
    [ minLength : 0..MaxMinLength,
      requireUppercase : BOOLEAN,
      requireLowercase : BOOLEAN,
      requireNumber : BOOLEAN,
      requireSymbol : BOOLEAN ]

\* Before a call the variable that will hold its result holds this.
NotCalled == [isValid |-> FALSE, errors |-> <<"(not called)">>]
JSNotCalled == [t |-> "(not called)", v |-> ""]

MapperIdle ==
    /\ errorCode = JSNotCalled
    /\ defaultMessage = JSNotCalled
    /\ mapped = JSNotCalled

ExtractNotCalled == [t |-> "(not called)", code |-> JSUndefined, message |-> JSUndefined]

ExtractIdle ==
    /\ data = JSNotCalled
    /\ extracted = ExtractNotCalled

\* Before the round trip its result holds this.
RoundTripNotCalled == [app |-> <<"(not called)">>, api |-> <<"(not called)">>]

\* No path utility is under call: path holds no path.
PathNotCalled == <<"(not called)">>

PathsIdle ==
    /\ isBrowser = FALSE
    /\ basePathEnv = EnvUnset
    /\ path = PathNotCalled
    /\ apiUrlResult = <<>>
    /\ appUrlResult = <<>>
    /\ withoutBasePathResult = <<>>
    /\ hasBasePathResult = FALSE
    /\ roundTripResult = RoundTripNotCalled

EventsIdle ==
    /\ context = ContextNotCalled
    /\ logCalls = <<>>

HeadersNotCalled == [kind |-> "(not called)"]

HeadersIdle ==
    /\ headers = HeadersNotCalled
    /\ headerResult = [clientIP |-> <<>>, userAgent |-> <<>>]

WindowNotLoaded == [isBrowser |-> "(not loaded)"]

ShipperIdle ==
    /\ window = WindowNotLoaded
    /\ logShipper = NoShipper
    /\ shipped = NothingShipped

ProviderNotRendered == [rendered |-> "(not rendered)"]

ProviderIdle == authProvider = ProviderNotRendered

InitPassword ==
    /\ op = "none"
    /\ password \in Passwords
    /\ policy \in Policies
    /\ result = NotCalled
    /\ singleError = JSNotCalled
    /\ MapperIdle
    /\ ExtractIdle
    /\ PathsIdle
    /\ EventsIdle
    /\ HeadersIdle
    /\ ShipperIdle
    /\ ProviderIdle

\* const result = validatePassword(password, policy)
ValidatePassword ==
    /\ op = "none"
    /\ MapperIdle /\ ExtractIdle /\ PathsIdle /\ EventsIdle
    /\ HeadersIdle /\ ShipperIdle /\ ProviderIdle
    /\ result' = validatePassword(password, policy)
    /\ op' = "validatePassword"
    /\ UNCHANGED <<password, policy, singleError, mapperVars, extractVars, pathVars,
                   eventVars, headerVars, shipperVars, providerVars>>

\* validatePasswordSingleError(password, policy), called on the same arguments
ValidatePasswordSingleError ==
    /\ op = "validatePassword"
    /\ singleError' = validatePasswordSingleError(password, policy)
    /\ op' = "validatePasswordSingleError"
    /\ UNCHANGED <<password, policy, result, mapperVars, extractVars, pathVars,
                   eventVars, headerVars, shipperVars, providerVars>>

NextPassword == ValidatePassword \/ ValidatePasswordSingleError

SpecPassword == InitPassword /\ [][NextPassword]_vars

\* Codes that are no key of the table: near misses of a key (another case, a
\* space before or after), a code no server issues, and names every object inherits.
UnknownCodes ==
    { "unknown_error_code", "nonexistent_code", "INVALID_EMAIL", "Invalid_Email",
      " timeout", "timeout ", "Timeout", "unknown",
      "constructor", "toString", "hasOwnProperty", "__proto__" }

\* errorCode: string | undefined
ErrorCodes ==
    {JSUndefined, JSString("")}
        \cup {JSString(k) : k \in DOMAIN errorMap}
        \cup {JSString(k) : k \in UnknownCodes}

\* defaultMessage?: string
DefaultMessages ==
    {JSUndefined, JSString(""), JSString("Custom error message"), JSString("X"),
     JSString(errorMap["timeout"])}

PasswordIdle ==
    /\ password = <<>>
    /\ policy = [minLength |-> 0, requireUppercase |-> FALSE, requireLowercase |-> FALSE,
                 requireNumber |-> FALSE, requireSymbol |-> FALSE]
    /\ result = NotCalled
    /\ singleError = JSNotCalled

InitMapper ==
    /\ op = "none"
    /\ errorCode \in ErrorCodes
    /\ defaultMessage \in DefaultMessages
    /\ mapped = JSNotCalled
    /\ PasswordIdle
    /\ ExtractIdle
    /\ PathsIdle
    /\ EventsIdle
    /\ HeadersIdle
    /\ ShipperIdle
    /\ ProviderIdle

\* mapAuthError(errorCode, defaultMessage)
MapAuthError ==
    /\ op = "none"
    /\ errorCode # JSNotCalled
    /\ mapped' = mapAuthError(errorCode, defaultMessage)
    /\ op' = "mapAuthError"
    /\ UNCHANGED <<errorCode, defaultMessage, passwordVars, extractVars, pathVars,
                   eventVars, headerVars, shipperVars, providerVars>>

NextMapper == MapAuthError

SpecMapper == InitMapper /\ [][NextMapper]_vars

\* The values of a code and of a message in an error object of a response.
ResponseCodes ==
    { JSAbsent, JSNull, JSString(""), JSString("invalid_email"),
      JSString("csrf_token_invalid"), JSString("unknown_code"), JSString("constructor"),
      JSNumber(42) }

ResponseMessages ==
    { JSAbsent, JSNull, JSString(""), JSString("Custom message"), JSNumber(5) }

\* The values of the error property: absent, a primitive, or an object with an
\* optional code and an optional message (an array is an object with neither).
ResponseErrors ==
    { JSAbsent, JSUndefined, JSNull, JSString(""), JSString("Error message"),
      JSString("invalid_email"), JSNumber(0), JSNumber(42), JSBoolean(FALSE),
      JSBoolean(TRUE),
      [t |-> "object", v |-> "array", code |-> JSAbsent, message |-> JSAbsent] }
        \cup { [t |-> "object", v |-> "", code |-> c, message |-> m] :
                    c \in ResponseCodes, m \in ResponseMessages }

\* data: unknown -- a primitive, or an object with an optional error property and
\* an optional unrelated one.
Payloads ==
    { JSUndefined, JSNull, JSString("string"), JSString(""), JSNumber(42), JSBoolean(TRUE) }
        \cup { [t |-> "object", v |-> "", error |-> e, other |-> o] :
                    e \in ResponseErrors, o \in {JSAbsent, JSString("data")} }

InitExtract ==
    /\ op = "none"
    /\ data \in Payloads
    /\ extracted = ExtractNotCalled
    /\ PasswordIdle
    /\ MapperIdle
    /\ PathsIdle
    /\ EventsIdle
    /\ HeadersIdle
    /\ ShipperIdle
    /\ ProviderIdle

\* extractAuthError(data)
ExtractAuthError ==
    /\ op = "none"
    /\ data # JSNotCalled
    /\ extracted' = extractAuthError(data)
    /\ op' = "extractAuthError"
    /\ UNCHANGED <<data, passwordVars, mapperVars, pathVars, eventVars, headerVars,
                   shipperVars, providerVars>>

NextExtract == ExtractAuthError

SpecExtract == InitExtract /\ [][NextExtract]_vars

\* The error mapper as a whole: a run calls mapAuthError or extractAuthError.
InitAuthErrors == InitMapper \/ InitExtract
NextAuthErrors == NextMapper \/ NextExtract
SpecAuthErrors == InitAuthErrors /\ [][NextAuthErrors]_vars

\* The characters of a path: the separator, a letter and a hyphen.
PathChars == {"/", "a", "-"}

Paths == UNION { [1..n -> PathChars] : n \in 0..MaxPathLen }

\* NEXT_PUBLIC_BASE_PATH: unset, empty, or some string.
BasePathEnvs ==
    {EnvUnset} \cup { EnvString(s) : s \in UNION { [1..n -> PathChars] : n \in 0..MaxBasePathLen } }

InitPaths ==
    /\ op = "none"
    /\ isBrowser \in BOOLEAN
    /\ basePathEnv \in BasePathEnvs
    /\ path \in Paths
    /\ apiUrlResult = <<>>
    /\ appUrlResult = <<>>
    /\ withoutBasePathResult = <<>>
    /\ hasBasePathResult = FALSE
    /\ roundTripResult = RoundTripNotCalled
    /\ PasswordIdle
    /\ MapperIdle
    /\ ExtractIdle
    /\ EventsIdle
    /\ HeadersIdle
    /\ ShipperIdle
    /\ ProviderIdle

\* apiUrl(path)
ApiUrl ==
    /\ op = "none"
    /\ path # PathNotCalled
    /\ apiUrlResult' = apiUrl(path)
    /\ op' = "apiUrl"
    /\ UNCHANGED <<isBrowser, basePathEnv, path, appUrlResult, withoutBasePathResult,
                   hasBasePathResult, roundTripResult, passwordVars, mapperVars, extractVars,
                   eventVars, headerVars, shipperVars, providerVars>>

\* appUrl(path), on the same path
AppUrl ==
    /\ op = "apiUrl"
    /\ appUrlResult' = appUrl(path)
    /\ op' = "appUrl"
    /\ UNCHANGED <<isBrowser, basePathEnv, path, apiUrlResult, withoutBasePathResult,
                   hasBasePathResult, roundTripResult, passwordVars, mapperVars, extractVars,
                   eventVars, headerVars, shipperVars, providerVars>>

\* withoutBasePath(path), on the same path
WithoutBasePath ==
    /\ op = "appUrl"
    /\ withoutBasePathResult' = withoutBasePath(path)
    /\ op' = "withoutBasePath"
    /\ UNCHANGED <<isBrowser, basePathEnv, path, apiUrlResult, appUrlResult,
                   hasBasePathResult, roundTripResult, passwordVars, mapperVars, extractVars,
                   eventVars, headerVars, shipperVars, providerVars>>

\* hasBasePath(path), on the same path
HasBasePath ==
    /\ op = "withoutBasePath"
    /\ hasBasePathResult' = hasBasePath(path)
    /\ op' = "hasBasePath"
    /\ UNCHANGED <<isBrowser, basePathEnv, path, apiUrlResult, appUrlResult,
                   withoutBasePathResult, roundTripResult, passwordVars, mapperVars,
                   extractVars, eventVars, headerVars, shipperVars, providerVars>>

\* withoutBasePath(appUrl(path)) and withoutBasePath(apiUrl(path)), on the same path
RoundTrip ==
    /\ op = "hasBasePath"
    /\ roundTripResult' = [app |-> withoutBasePath(appUrl(path)),
                           api |-> withoutBasePath(apiUrl(path))]
    /\ op' = "roundTrip"
    /\ UNCHANGED <<isBrowser, basePathEnv, path, apiUrlResult, appUrlResult,
                   withoutBasePathResult, hasBasePathResult, passwordVars, mapperVars,
                   extractVars, eventVars, headerVars, shipperVars, providerVars>>

NextPaths == ApiUrl \/ AppUrl \/ WithoutBasePath \/ HasBasePath \/ RoundTrip

SpecPaths == InitPaths /\ [][NextPaths]_vars

\* The event types of AuthEventContext, and one a caller without types may pass.
EventTypes ==
    { <<"login", "attempt">>, <<"login", "success">>, <<"login", "failure">>,
      <<"signup", "attempt">>, <<"signup", "success">>, <<"signup", "failure">>,
      <<"password", "reset", "request">>, <<"auth", "error">>, <<"mfa", "failure", "retry">> }

\* An optional string: absent, empty, or some text.
OptionalStrings(text) == {JSAbsent, JSString(""), JSString(text)}

\* context: AuthEventContext, with the email a caller without types may add.
Contexts ==
    [ eventType : EventTypes,
      appName : {JSString("hello"), JSString("")},
      userId : OptionalStrings("user-1"),
      result : {JSAbsent, JSString("success"), JSString("failure")},
      errorCode : OptionalStrings("invalid_credentials"),
      errorMessage : OptionalStrings("Invalid email or password."),
      endpoint : OptionalStrings("/api/login"),
      requestId : OptionalStrings("req-1"),
      timestamp : {JSAbsent, JSString("2024-01-01T00:00:00Z")},
      email : {JSAbsent, JSString("user@example.com")} ]

InitEvents ==
    /\ op = "none"
    /\ context \in Contexts
    /\ logCalls = <<>>
    /\ PasswordIdle
    /\ MapperIdle
    /\ ExtractIdle
    /\ PathsIdle
    /\ HeadersIdle
    /\ ShipperIdle
    /\ ProviderIdle

\* logAuthEvent(context)
LogAuthEvent ==
    /\ op = "none"
    /\ context # ContextNotCalled
    /\ logCalls' = Append(logCalls, logAuthEvent(context))
    /\ op' = "logAuthEvent"
    /\ UNCHANGED <<context, passwordVars, mapperVars, extractVars, pathVars, headerVars,
                   shipperVars, providerVars>>

NextEvents == LogAuthEvent

SpecEvents == InitEvents /\ [][NextEvents]_vars

\* The characters of a header value: a digit, the separator and a space.
HeaderChars == {"1", ",", " "}

HeaderStrings == UNION { [1..n -> HeaderChars] : n \in 0..MaxHeaderLen }

\* What a Headers object keeps of a value: no white space before or after it.
IsNormalized(v) == v = <<>> \/ (Head(v) # " " /\ v[Len(v)] # " ")

\* The entries of a headers argument from the values of its nine keys.
EntriesOf(t) ==
    ("x-forwarded-for" :> t[1]) @@ ("X-Forwarded-For" :> t[2]) @@ ("X-FORWARDED-FOR" :> t[3])
        @@ ("x-real-ip" :> t[4]) @@ ("X-Real-IP" :> t[5]) @@ ("X-REAL-IP" :> t[6])
        @@ ("user-agent" :> t[7]) @@ ("User-Agent" :> t[8]) @@ ("USER-AGENT" :> t[9])

\* A Record<string, string | null>: the forwarded-for header under its lower-case
\* key with any value, the other keys each absent or with a value of their own.
RecordHeaders ==
    { [kind |-> "Record", entries |-> EntriesOf(t)] :
        t \in ({HeaderUndefined, HeaderNull} \cup {HeaderString(v) : v \in HeaderStrings})
              \X {HeaderUndefined, HeaderString(<<"2">>)}
              \X {HeaderUndefined, HeaderString(<<"3">>)}
              \X {HeaderUndefined, HeaderNull, HeaderString(<<>>), HeaderString(<<"7">>)}
              \X {HeaderUndefined, HeaderString(<<"8">>)}
              \X {HeaderUndefined, HeaderString(<<"9">>)}
              \X {HeaderUndefined, HeaderNull, HeaderString(<<"m">>)}
              \X {HeaderUndefined, HeaderString(<<"M">>)}
              \X {HeaderUndefined, HeaderString(<<"W">>)} }

\* A Headers object: lower-case names only, values normalized.
HeadersObjects ==
    { [kind |-> "Headers", entries |-> EntriesOf(t)] :
        t \in ({HeaderUndefined} \cup
                    {HeaderString(v) : v \in {x \in HeaderStrings : IsNormalized(x)}})
              \X {HeaderUndefined} \X {HeaderUndefined}
              \X {HeaderUndefined, HeaderString(<<>>), HeaderString(<<"7">>)}
              \X {HeaderUndefined} \X {HeaderUndefined}
              \X {HeaderUndefined, HeaderString(<<"m">>)}
              \X {HeaderUndefined} \X {HeaderUndefined} }

InitHeaders ==
    /\ op = "none"
    /\ headers \in RecordHeaders \cup HeadersObjects
    /\ headerResult = [clientIP |-> <<>>, userAgent |-> <<>>]
    /\ PasswordIdle
    /\ MapperIdle
    /\ ExtractIdle
    /\ PathsIdle
    /\ EventsIdle
    /\ ShipperIdle
    /\ ProviderIdle

\* getClientIP(headers)
GetClientIP ==
    /\ op = "none"
    /\ headers # HeadersNotCalled
    /\ headerResult' = [headerResult EXCEPT !.clientIP = getClientIP(headers)]
    /\ op' = "getClientIP"
    /\ UNCHANGED <<headers, passwordVars, mapperVars, extractVars, pathVars, eventVars,
                   shipperVars, providerVars>>

\* getUserAgent(headers), on the same headers
GetUserAgent ==
    /\ op = "getClientIP"
    /\ headerResult' = [headerResult EXCEPT !.userAgent = getUserAgent(headers)]
    /\ op' = "getUserAgent"
    /\ UNCHANGED <<headers, passwordVars, mapperVars, extractVars, pathVars, eventVars,
                   shipperVars, providerVars>>

NextHeaders == GetClientIP \/ GetUserAgent

SpecHeaders == InitHeaders /\ [][NextHeaders]_vars

\* document.cookie: no cookie, a request id, a request id with a malformed
\* escape, and a malformed one behind a well-formed one.
CookieJars ==
    { <<>>,
      <<[name |-> "theme", value |-> "dark"], [name |-> "x-request-id", value |-> "req%2D1"]>>,
      <<[name |-> "x-request-id", value |-> "%E0%A4%A"]>>,
      <<[name |-> "x-request-id", value |-> "req-1"], [name |-> "x-request-id", value |-> "%"]>> }

\* The environment of a run of the logger. The program sets neither the env
\* variables nor the cookie, so they stay what they are at the start.
Windows ==
    [ isBrowser : BOOLEAN,
      NEXT_PUBLIC_LOG_SHIPPING_URL :
            {EnvUnset, EnvString(<<>>), EnvString(<<" ">>), EnvString(<<" ", "/next/logs", " ">>)},
      REACT_APP_LOG_SHIPPING_URL :
            {EnvUnset, EnvString(<<" ">>), EnvString(<<"/react/logs">>)},
      cookie : CookieJars,
      sendBeacon : BOOLEAN,
      circular : BOOLEAN,
      listeners : {[beforeunload |-> 0, pagehide |-> 0]},
      timers : {{}} ]

InitShipper ==
    /\ op = "none"
    /\ window \in Windows
    /\ logShipper = NoShipper
    /\ shipped = NothingShipped
    /\ PasswordIdle
    /\ MapperIdle
    /\ ExtractIdle
    /\ PathsIdle
    /\ EventsIdle
    /\ HeadersIdle
    /\ ProviderIdle

\* The three records of the logger, together.
LoggerState == [window |-> window, logShipper |-> logShipper, shipped |-> shipped]

\* The logger runs: op is "none" before its first step and "logger" after it.
LoggerRuns == op \in {"none", "logger"} /\ window # WindowNotLoaded

\* logger.debug / info / warn / error writes one log
WriteLog ==
    /\ LoggerRuns
    /\ shipped.written < MaxLogs
    /\ LET st == write(LoggerState, shipped.written + 1)
       IN  /\ window' = st.window
           /\ logShipper' = st.logShipper
           /\ shipped' = st.shipped
    /\ op' = "logger"
    /\ UNCHANGED <<passwordVars, mapperVars, extractVars, pathVars, eventVars, headerVars,
                   providerVars>>

\* A pending timer expires: its callback calls this.flush()
TimerFires ==
    /\ LoggerRuns
    /\ \E id \in window.timers :
            LET st == flush([LoggerState EXCEPT !.window.timers = @ \ {id}])
            IN  /\ window' = st.window
                /\ logShipper' = st.logShipper
                /\ shipped' = st.shipped
    /\ op' = "logger"
    /\ UNCHANGED <<passwordVars, mapperVars, extractVars, pathVars, eventVars, headerVars,
                   providerVars>>

\* The page fires beforeunload: every listener registered for it runs (what one
\* does, a second one finds done)
BeforeUnload ==
    /\ LoggerRuns
    /\ window.isBrowser
    /\ LET st == IF window.listeners.beforeunload > 0 THEN unloadListener(LoggerState)
                 ELSE LoggerState
       IN  /\ window' = st.window
           /\ logShipper' = st.logShipper
           /\ shipped' = st.shipped
    /\ op' = "logger"
    /\ UNCHANGED <<passwordVars, mapperVars, extractVars, pathVars, eventVars, headerVars,
                   providerVars>>

\* The page fires pagehide
PageHide ==
    /\ LoggerRuns
    /\ window.isBrowser
    /\ LET st == IF window.listeners.pagehide > 0 THEN unloadListener(LoggerState)
                 ELSE LoggerState
       IN  /\ window' = st.window
           /\ logShipper' = st.logShipper
           /\ shipped' = st.shipped
    /\ op' = "logger"
    /\ UNCHANGED <<passwordVars, mapperVars, extractVars, pathVars, eventVars, headerVars,
                   providerVars>>

NextShipper == WriteLog \/ TimerFires \/ BeforeUnload \/ PageHide

SpecShipper == InitShipper /\ [][NextShipper]_vars

\* The browser fires a timer that is due.
SpecShipperLive == SpecShipper /\ WF_vars(TimerFires)

\* window.location.origin: a scheme, a host and perhaps a port.
Origins ==
    { <<scheme>> \o host \o port :
        scheme \in {"http://", "https://"},
        host \in { <<"localhost">>, <<"127.0.0.1">>, <<"example.com">>,
                   <<"localhost", ".evil.com">>, <<"127.0.0.1", ".nip.io">>,
                   <<"localhost", "-dev.example.com">> },
        port \in {<<>>, <<":3000">>} }

\* config: Auth0Config
Auth0Configs ==
    [ domain : {NoText, Text(<<>>), Text(<<"tenant.auth0.com">>)},
      clientId : {NoText, Text(<<>>), Text(<<"client-id">>)},
      redirectUri : { NoText, Text(<<>>),
                      Text(<<"https://app.example.com", "/callback">>),
                      Text(<<"https://app.example.com", "/auth/callback">>),
                      Text(<<"https://iam.example.com", "/auth/callback", "?app=hello">>) } ]

\* AuthProvider's props and where it renders: in a window with an origin, or on
\* the server.
Renderings ==
    { [config |-> c, hasWindow |-> TRUE, origin |-> o, nodeEnv |-> e,
       rendered |-> "(not rendered)", console |-> <<>>] :
            c \in Auth0Configs, o \in Origins, e \in {"development", "production"} }
        \cup
    { [config |-> c, hasWindow |-> FALSE, origin |-> <<>>, nodeEnv |-> e,
       rendered |-> "(not rendered)", console |-> <<>>] :
            c \in Auth0Configs, e \in {"development", "production"} }

InitProvider ==
    /\ op = "none"
    /\ authProvider \in Renderings
    /\ PasswordIdle
    /\ MapperIdle
    /\ ExtractIdle
    /\ PathsIdle
    /\ EventsIdle
    /\ HeadersIdle
    /\ ShipperIdle

\* React renders <AuthProvider config={config}>
RenderAuthProvider ==
    /\ op = "none"
    /\ authProvider # ProviderNotRendered
    /\ authProvider' = AuthProvider(authProvider)
    /\ op' = "AuthProvider"
    /\ UNCHANGED <<passwordVars, mapperVars, extractVars, pathVars, eventVars, headerVars,
                   shipperVars>>

NextProvider == RenderAuthProvider

SpecProvider == InitProvider /\ [][NextProvider]_vars

\* The whole package: a run calls one utility or the other.
Init ==
    \/ InitPassword \/ InitMapper \/ InitExtract \/ InitPaths \/ InitEvents
    \/ InitHeaders \/ InitShipper \/ InitProvider
Next ==
    \/ NextPassword \/ NextMapper \/ NextExtract \/ NextPaths \/ NextEvents
    \/ NextHeaders \/ NextShipper \/ NextProvider
Spec == Init /\ [][Next]_vars

(***************************************************************************)
(* Properties of the password validator.                                   *)
(***************************************************************************)
\* validatePassword has been called on (password, policy) and result holds what
\* it returned.
Validated == op \in {"validatePassword", "validatePasswordSingleError"}

AllRequired ==
    /\ policy.requireUppercase
    /\ policy.requireLowercase
    /\ policy.requireNumber
    /\ policy.requireSymbol

NoneRequired ==
    /\ ~policy.requireUppercase
    /\ ~policy.requireLowercase
    /\ ~policy.requireNumber
    /\ ~policy.requireSymbol

InErrors(message) == \E i \in 1..Len(result.errors) : result.errors[i] = message

Categories(pw) == {GeneralCategory(pw[i]) : i \in 1..Len(pw)}

\* The rules as section 4.1 of the specification states them.
RuleOrder == <<"length", "uppercase", "lowercase", "number", "symbol">>

RuleViolated(rule, pw, pol) ==
    CASE rule = "length" -> Utf16Length(pw) < pol.minLength
      [] rule = "uppercase" -> pol.requireUppercase /\ "Lu" \notin Categories(pw)
      [] rule = "lowercase" -> pol.requireLowercase /\ "Ll" \notin Categories(pw)
      [] rule = "number" ->
            pol.requireNumber /\ Categories(pw) \cap {"Nd", "Nl", "No"} = {}
      [] rule = "symbol" ->
            pol.requireSymbol
                /\ Categories(pw) \subseteq {"Lu", "Ll", "Lt", "Lm", "Lo", "Nd", "Nl", "No", "Zs"}

RuleMessage(rule, pol) ==
    CASE rule = "length" -> LengthMessage(pol.minLength)
      [] rule = "uppercase" -> UppercaseMessage
      [] rule = "lowercase" -> LowercaseMessage
      [] rule = "number" -> NumberMessage
      [] rule = "symbol" -> SymbolMessage

\* C1: the errors list is exactly the messages of the violated rules, in the rule
\* order length, uppercase, lowercase, number, symbol: every violated rule
\* contributes its one message whatever the earlier rules did, a satisfied or
\* disabled rule contributes none, and errors.length is the number of violated
\* rules (the length of the subsequence of RuleOrder that is violated).
C1_ErrorsAreViolatedRulesInOrder ==
    Validated =>
        LET violated == SelectSeq(RuleOrder, LAMBDA r : RuleViolated(r, password, policy))
        IN  /\ Len(result.errors) = Len(violated)
            /\ \A i \in 1..Len(violated) :
                    result.errors[i] = RuleMessage(violated[i], policy)

\* The case of the test 'should fail with multiple errors': four rules fail around
\* one that passes.
C1_Witness ==
    /\ op = "validatePassword"
    /\ AllRequired
    /\ password = <<"a">>
    /\ result.errors = <<LengthMessage(policy.minLength), UppercaseMessage,
                         NumberMessage, SymbolMessage>>

\* C2: isValid is true if and only if errors is empty.
C2_ValidIffNoErrors ==
    Validated => (result.isValid <=> result.errors = <<>>)

C2_Witness ==
    /\ op = "validatePassword"
    /\ Len(result.errors) = 1
    /\ ~result.isValid

\* C3: validatePasswordSingleError returns null if and only if validatePassword
\* reports the password valid, and otherwise the first entry of its errors.
C3_SingleErrorIsFirstError ==
    op = "validatePasswordSingleError" =>
        /\ singleError = JSNull <=> result.isValid
        /\ ~result.isValid => singleError = JSString(result.errors[1])

C3_Witness ==
    /\ op = "validatePasswordSingleError"
    /\ Len(result.errors) >= 2
    /\ singleError = JSString(UppercaseMessage)

\* Whitespace: the space separators and the control characters tab, newline, ...
IsWhitespace(c) == GeneralCategory(c) = "Zs" \/ c = "TAB"

\* C4: with requireSymbol, the symbol rule passes if and only if some character is
\* not a letter, not a number and not whitespace (a space, a tab, a newline).
C4_SymbolIsNotLetterNumberWhitespace ==
    (Validated /\ policy.requireSymbol) =>
        (~InErrors(SymbolMessage) <=>
            \E i \in 1..Len(password) :
                /\ GeneralCategory(password[i]) \notin {"Lu", "Ll", "Lt", "Lm", "Lo"}
                /\ GeneralCategory(password[i]) \notin {"Nd", "Nl", "No"}
                /\ ~IsWhitespace(password[i]))

\* A letter, a digit or a space, by its Unicode category.
IsLetterDigitOrSpace(c) == GeneralCategory(c) \in {"Lu", "Ll", "Lo", "Nd"} \/ c = "SPACE"

\* C5: with requireSymbol, a password of only Unicode letters, digits and spaces
\* fails the symbol rule, and the same password with "!" appended passes it.
C5_LettersDigitsSpacesNeedSymbol ==
    (Validated /\ policy.requireSymbol) =>
        /\ (\A i \in 1..Len(password) : IsLetterDigitOrSpace(password[i]))
                => InErrors(SymbolMessage)
        /\ ( /\ Len(password) >= 1
             /\ password[Len(password)] = "!"
             /\ \A i \in 1..(Len(password) - 1) : IsLetterDigitOrSpace(password[i]) )
                => ~InErrors(SymbolMessage)

C5_Witness ==
    /\ op = "validatePassword"
    /\ policy.requireSymbol
    /\ password = <<"greek_delta", "ARABIC_ONE", "SPACE">>
    /\ InErrors(SymbolMessage)

\* C6: a required uppercase, lowercase or number rule passes if and only if the
\* password holds a character of category Lu, Ll or N (Nd, Nl, No), whatever its
\* script.
C6_CaseAndNumberRulesUseCategories ==
    Validated =>
        /\ policy.requireUppercase =>
                (~InErrors(UppercaseMessage) <=> "Lu" \in Categories(password))
        /\ policy.requireLowercase =>
                (~InErrors(LowercaseMessage) <=> "Ll" \in Categories(password))
        /\ policy.requireNumber =>
                (~InErrors(NumberMessage)
                    <=> Categories(password) \cap {"Nd", "Nl", "No"} # {})

\* Greek capital and small letters and an Arabic-Indic digit satisfy the three rules.
C6_Witness ==
    /\ op = "validatePassword"
    /\ AllRequired
    /\ password = <<"GREEK_DELTA", "greek_delta", "ARABIC_ONE">>
    /\ result.errors = <<SymbolMessage>>

\* C7: under minLength = 0 with nothing required every password is valid, the
\* empty one included.
C7_EmptyPolicyAcceptsAll ==
    (Validated /\ policy.minLength = 0 /\ NoneRequired) =>
        (result.isValid /\ result.errors = <<>>)

C7_Witness ==
    /\ op = "validatePassword"
    /\ policy.minLength = 0
    /\ NoneRequired
    /\ password = <<>>
    /\ result.isValid

(***************************************************************************)
(* Properties of the auth error mapper.                                    *)
(***************************************************************************)
\* defaultMessage if it is supplied and non-empty, else the generic fallback.
DefaultOrFallback ==
    IF defaultMessage.t = "string" /\ defaultMessage.v # ""
    THEN defaultMessage
    ELSE JSString(GenericFallback)

\* C8: for an absent or empty code mapAuthError returns defaultMessage if it is
\* supplied and non-empty, else the generic fallback.
C8_MissingCodeGivesDefaultOrFallback ==
    (op = "mapAuthError" /\ errorCode \in {JSUndefined, JSString("")}) =>
        mapped = DefaultOrFallback

C8_Witness ==
    /\ op = "mapAuthError"
    /\ errorCode = JSString("")
    /\ defaultMessage = JSString("Custom error message")
    /\ mapped = JSString("Custom error message")

\* C9: for a key of the table mapAuthError returns the table's message, whatever
\* defaultMessage is.
C9_TableEntryWins ==
    (op = "mapAuthError" /\ errorCode.t = "string" /\ errorCode.v \in DOMAIN errorMap) =>
        mapped = JSString(errorMap[errorCode.v])

C9_Witness ==
    /\ op = "mapAuthError"
    /\ errorCode = JSString("invalid_email")
    /\ defaultMessage = JSString("Custom error message")
    /\ mapped = JSString("Please enter a valid email address.")

\* C10: for a non-empty code that is no key of the table (compared exactly)
\* mapAuthError returns defaultMessage if it is supplied and non-empty, else the
\* generic fallback.
C10_UnknownCodeGivesDefaultOrFallback ==
    ( /\ op = "mapAuthError"
      /\ errorCode.t = "string"
      /\ errorCode.v # ""
      /\ errorCode.v \notin DOMAIN errorMap )
        => mapped = DefaultOrFallback

\* The table of section 4.2 of the specification.
RequiredTable ==
    [
      invalid_credentials |-> "Invalid email or password. Please check your credentials and try again.",
      invalid_email |-> "Please enter a valid email address.",
      invalid_password |-> "Password does not meet requirements. Please check the password policy.",
      user_already_exists |-> "An account with this email already exists. Please sign in instead.",
      email_already_registered |-> "An account with this email already exists. Please sign in instead.",
      csrf_token_invalid |-> "Security token expired. Please refresh the page and try again.",
      csrf_token_missing |-> "Security token missing. Please refresh the page and try again.",
      csrf_token_expired |-> "Security token expired. Please refresh the page and try again.",
      rate_limit_exceeded |-> "Too many attempts. Please wait a moment and try again.",
      account_locked |-> "Account temporarily locked due to multiple failed login attempts. Please try again in 15 minutes.",
      account_suspended |-> "Your account has been suspended. Please contact support for assistance.",
      service_unavailable |-> "Authentication service is temporarily unavailable. Please try again in a moment.",
      internal_error |-> "An unexpected error occurred. Please try again.",
      network_error |-> "Network error. Please check your connection and try again.",
      timeout |-> "Request timed out. Please try again." ]

SameAccountMessage == "An account with this email already exists. Please sign in instead."
TokenExpiredMessage == "Security token expired. Please refresh the page and try again."

\* C11: the table has exactly the 15 entries of the specification and
\* mapAuthError(code) returns the listed message for each; the two "already
\* exists" codes share a message, csrf_token_invalid and csrf_token_expired share
\* one, and csrf_token_missing has another.
C11_TableIsTheRequiredTable ==
    /\ DOMAIN errorMap = DOMAIN RequiredTable
    /\ Cardinality(DOMAIN errorMap) = 15
    /\ (op = "mapAuthError" /\ defaultMessage = JSUndefined /\ errorCode.t = "string") =>
        /\ errorCode.v \in DOMAIN RequiredTable
                => mapped = JSString(RequiredTable[errorCode.v])
        /\ errorCode.v \in {"user_already_exists", "email_already_registered"}
                => mapped = JSString(SameAccountMessage)
        /\ errorCode.v \in {"csrf_token_invalid", "csrf_token_expired"}
                => mapped = JSString(TokenExpiredMessage)
        /\ errorCode.v = "csrf_token_missing" => mapped # JSString(TokenExpiredMessage)

C11_Witness ==
    /\ op = "mapAuthError"
    /\ defaultMessage = JSUndefined
    /\ errorCode = JSString("csrf_token_invalid")
    /\ mapped = JSString(TokenExpiredMessage)

(***************************************************************************)
(* Properties of extractAuthError.                                         *)
(***************************************************************************)
\* The error property of the payload, JSAbsent when the payload has none.
ErrorField == IF "error" \in DOMAIN data THEN data["error"] ELSE JSAbsent

UnknownWithFallback == Extracted(JSString("unknown"), JSString(GenericFallback))

\* C12: extractAuthError returns null for null, undefined, a payload that is not
\* an object, and an object without an error field.
C12_NoErrorGivesNull ==
    (op = "extractAuthError" /\ (data.t # "object" \/ ErrorField.t = "absent")) =>
        extracted = ExtractedNull

C12_Witness ==
    /\ op = "extractAuthError"
    /\ data.t = "object"
    /\ ErrorField.t = "absent"
    /\ data["other"] = JSString("data")
    /\ extracted = ExtractedNull

\* C13 as claimed: every string error s, the empty string included, gives
\* { code: 'unknown', message: s }.
C13_AnyStringErrorIsKeptVerbatim ==
    (op = "extractAuthError" /\ data.t = "object" /\ ErrorField.t = "string") =>
        extracted = Extracted(JSString("unknown"), ErrorField)

\* C13: a non-empty string error s gives { code: 'unknown', message: s }, also when
\* s is the name of a known code; the empty string gives null.
C13_NonEmptyStringErrorIsKeptVerbatim ==
    (op = "extractAuthError" /\ data.t = "object" /\ ErrorField.t = "string") =>
        extracted = IF ErrorField.v # ""
                    THEN Extracted(JSString("unknown"), ErrorField)
                    ELSE ExtractedNull

C13_Witness ==
    /\ op = "extractAuthError"
    /\ data.t = "object"
    /\ ErrorField = JSString("invalid_email")
    /\ extracted = Extracted(JSString("unknown"), JSString("invalid_email"))

\* The error property is an object (an array included).
ErrorIsObject == data.t = "object" /\ ErrorField.t = "object"

\* C14: for an error object the result's code is error.code, or 'unknown' when
\* the code is absent or null, and its message is mapAuthError(code,
\* error.message): the table's message for a code of the table, the server's
\* message for another code that comes with one, and { code: 'unknown', message }
\* for a message without a code.
C14_ObjectErrorIsMapped ==
    (op = "extractAuthError" /\ ErrorIsObject) =>
        LET code == ErrorField.code
            message == ErrorField.message
            hasMessage == message.t = "string" /\ message.v # ""
        IN  /\ extracted.t = "object"
            /\ extracted.code = IF code.t \in {"absent", "null"}
                                THEN JSString("unknown") ELSE code
            /\ (code.t = "string" /\ code.v \in DOMAIN RequiredTable)
                    => extracted.message = JSString(RequiredTable[code.v])
            /\ (code.t = "string" /\ code.v # "" /\ code.v \notin DOMAIN RequiredTable
                    /\ hasMessage)
                    => extracted.message = message
            /\ (code.t \in {"absent", "null"} /\ hasMessage)
                    => extracted = Extracted(JSString("unknown"), message)

\* The error property is there but is no usable error: a number, a boolean, or
\* an object with neither a code nor a message.
ErrorIsMalformed ==
    /\ data.t = "object"
    /\ \/ ErrorField.t \in {"number", "boolean"}
       \/ /\ ErrorField.t = "object"
          /\ ErrorField.code.t \in {"absent", "null"}
          /\ ErrorField.message.t \in {"absent", "null"}

\* C15: a payload whose error is present but malformed or partial gives
\* { code: 'unknown', message: the generic fallback }.
C15_MalformedErrorGivesUnknown ==
    (op = "extractAuthError" /\ ErrorIsMalformed) => extracted = UnknownWithFallback

IsNonEmptyString(x) == x.t = "string" /\ x.v # ""

\* C16: every result of mapAuthError is a non-empty string, and every non-null
\* result of extractAuthError has a non-empty string code and a non-empty string
\* message.
C16_ResultsAreNonEmptyStrings ==
    /\ op = "mapAuthError" => IsNonEmptyString(mapped)
    /\ (op = "extractAuthError" /\ extracted.t = "object") =>
            (IsNonEmptyString(extracted.code) /\ IsNonEmptyString(extracted.message))

(***************************************************************************)
(* Properties of the path utilities.                                       *)
(***************************************************************************)
\* The text of NEXT_PUBLIC_BASE_PATH, empty when the variable is unset.
ConfiguredBasePath == IF basePathEnv.t = "string" THEN basePathEnv.v ELSE <<>>

\* p with a leading '/' put before it when it has none.
LeadingSlash(p) == IF p # <<>> /\ Head(p) = "/" THEN p ELSE <<"/">> \o p

\* p begins with the characters of b.
BeginsWith(p, b) ==
    /\ Len(b) <= Len(p)
    /\ \A i \in 1..Len(b) : p[i] = b[i]

\* p without its first Len(b) characters.
Rest(p, b) == [i \in 1..(Len(p) - Len(b)) |-> p[i + Len(b)]]

\* C17: apiUrl(p) and appUrl(p) return the same value for every path and every
\* basePath: the basePath (nothing when it is unset or empty) followed by p with
\* a leading '/' put before it when it has none; the empty path gives '/' after
\* the basePath.
C17_UrlIsBasePathThenNormalizedPath ==
    op \in {"appUrl", "withoutBasePath", "hasBasePath"} =>
        /\ apiUrlResult = appUrlResult
        /\ appUrlResult = ConfiguredBasePath \o LeadingSlash(path)
        /\ (path = <<>> => appUrlResult = ConfiguredBasePath \o <<"/">>)

\* A path without a leading '/' under a non-empty basePath.
C17_Witness ==
    /\ op = "appUrl"
    /\ basePathEnv = EnvString(<<"/", "a">>)
    /\ path = <<"a", "/">>
    /\ apiUrlResult = <<"/", "a", "/", "a", "/">>
    /\ appUrlResult = <<"/", "a", "/", "a", "/">>

\* C18: with a non-empty basePath b, hasBasePath(p) is true exactly when p begins
\* with b, and then withoutBasePath(p) is p without its leading b ('/' when p is
\* b), while a p that does not begin with b (the empty path too) is returned
\* unchanged; with an unset or empty basePath hasBasePath(p) is false and
\* withoutBasePath(p) is p.
C18_BasePathIsRemovedExactlyWhenPresent ==
    op = "hasBasePath" =>
        LET b == ConfiguredBasePath
        IN  IF b # <<>>
            THEN /\ hasBasePathResult <=> BeginsWith(path, b)
                 /\ BeginsWith(path, b) =>
                        withoutBasePathResult = IF path = b THEN <<"/">> ELSE Rest(path, b)
                 /\ ~BeginsWith(path, b) => withoutBasePathResult = path
            ELSE /\ ~hasBasePathResult
                 /\ withoutBasePathResult = path

\* The path is the basePath itself: it has the basePath and what is left is '/'.
C18_Witness ==
    /\ op = "hasBasePath"
    /\ basePathEnv = EnvString(<<"/", "a">>)
    /\ path = <<"/", "a">>
    /\ hasBasePathResult
    /\ withoutBasePathResult = <<"/">>

(***************************************************************************)
(* Properties of the auth event logger.                                    *)
(***************************************************************************)
\* logAuthEvent has been called on context.
Logged == op = "logAuthEvent"

\* The event types whose name contains 'failure'.
FailureEventTypes ==
    { <<"login", "failure">>, <<"signup", "failure">>, <<"mfa", "failure", "retry">> }

\* C19: logAuthEvent makes exactly one logger call, with the message
\* 'Authentication event'; the call is logger.error if and only if result is
\* 'failure', or the event type contains 'failure', or it is 'auth_error', and
\* logger.info in every other case.
C19_OneCallAtTheLevelOfTheEvent ==
    Logged =>
        /\ Len(logCalls) = 1
        /\ logCalls[1].message = "Authentication event"
        /\ logCalls[1].level \in {"error", "info"}
        /\ logCalls[1].level = "error" <=>
                \/ context.result = JSString("failure")
                \/ context.eventType \in FailureEventTypes
                \/ context.eventType = <<"auth", "error">>

\* An auth_error whose result is 'success' is logged with logger.error.
C19_Witness ==
    /\ Logged
    /\ context.eventType = <<"auth", "error">>
    /\ context.result = JSString("success")
    /\ Len(logCalls) = 1
    /\ logCalls[1].level = "error"

\* The input field a key of the logged context is copied from.
InputFieldOf ==
    [ user_id |-> "userId", result |-> "result", errorCode |-> "errorCode",
      errorMessage |-> "errorMessage", endpoint |-> "endpoint", requestId |-> "requestId" ]

\* The field is provided and is not empty.
Provided(field) == context[field].t = "string" /\ context[field].v # ""

\* C20: the context passed to the logger has the keys eventType and appName,
\* has each of user_id, result, errorCode, errorMessage, endpoint and requestId
\* exactly when its input field is provided and non-empty, and has no other key
\* (no timestamp, email, IP address or user agent).
C20_LoggedKeysAreTheProvidedFields ==
    Logged =>
        LET logged == logCalls[1].context
        IN  /\ DOMAIN logged =
                    {"eventType", "appName"}
                        \cup {k \in DOMAIN InputFieldOf : Provided(InputFieldOf[k])}
            /\ DOMAIN logged \cap {"timestamp", "email", "ip", "userAgent"} = {}

\* A context with a timestamp, an email, an empty userId and a requestId: only
\* the requestId is logged beside eventType and appName.
C20_Witness ==
    /\ Logged
    /\ context.timestamp # JSAbsent
    /\ context.email # JSAbsent
    /\ context.userId = JSString("")
    /\ context.appName = JSString("")
    /\ DOMAIN logCalls[1].context = {"eventType", "appName", "requestId"}

(***************************************************************************)
(* Further properties of the password validator and of the path utilities. *)
(***************************************************************************)
\* C26: the length error for N = policy.minLength is reported if and only if the
\* password has fewer than N code points, a character outside the Basic
\* Multilingual Plane counting as one.
C26_LengthRuleCountsCodePoints ==
    Validated =>
        (InErrors(LengthMessage(policy.minLength)) <=> Len(password) < policy.minLength)

\* C29: withoutBasePath(appUrl(p)) and withoutBasePath(apiUrl(p)) are p with a
\* leading '/' put before it when it has none, for every path and every basePath.
C29_RoundTripGivesTheNormalizedPath ==
    op = "roundTrip" =>
        /\ roundTripResult.app = LeadingSlash(path)
        /\ roundTripResult.api = LeadingSlash(path)

\* A path without a leading '/' goes round under a non-empty basePath.
C29_Witness ==
    /\ op = "roundTrip"
    /\ basePathEnv = EnvString(<<"/", "a">>)
    /\ path = <<"a", "-">>
    /\ appUrlResult = <<"/", "a", "/", "a", "-">>
    /\ roundTripResult = [app |-> <<"/", "a", "-">>, api |-> <<"/", "a", "-">>]

\* p is b, or p continues with '/' right after its leading b.
HasWholePrefix(p, b) ==
    /\ BeginsWith(p, b)
    /\ (Len(p) = Len(b) \/ p[Len(b) + 1] = "/")

ClientIPRead == op \in {"getClientIP", "getUserAgent"}

\* The non-empty values that headers holds for a header, under any of its keys.
PresentValues(keys) ==
    { headers.entries[k].v :
        k \in {key \in keys : headers.entries[key].t = "string" /\ headers.entries[key].v # <<>>} }

\* The characters of v before its first comma (all of v when it has none).
FirstEntry(v) ==
    IF \E i \in 1..Len(v) : v[i] = ","
    THEN LET first == CHOOSE i \in 1..Len(v) : v[i] = "," /\ \A j \in 1..(i - 1) : v[j] # ","
         IN  [i \in 1..(first - 1) |-> v[i]]
    ELSE v

\* r is e without the spaces before and after it.
IsTrimmed(e, r) ==
    /\ r = <<>> \/ (r[1] # " " /\ r[Len(r)] # " ")
    /\ \E before \in 0..Len(e) :
            /\ \A i \in 1..before : e[i] = " "
            /\ before + Len(r) <= Len(e)
            /\ \A i \in 1..Len(r) : e[before + i] = r[i]
            /\ \A i \in (before + Len(r) + 1)..Len(e) : e[i] = " "

\* C21: getClientIP returns the first comma-separated entry, trimmed, of the
\* X-Forwarded-For header when the headers hold a non-empty one; otherwise the
\* X-Real-IP header when they hold a non-empty one; otherwise the empty string --
\* for a Headers object and for a record alike.
C21_ForwardedForThenRealIP ==
    ClientIPRead =>
        LET forwardedFor == PresentValues(ForwardedForKeys)
            realIP == PresentValues(RealIPKeys)
        IN  IF forwardedFor # {}
            THEN \E v \in forwardedFor : IsTrimmed(FirstEntry(v), headerResult.clientIP)
            ELSE IF realIP # {} THEN headerResult.clientIP \in realIP
            ELSE headerResult.clientIP = <<>>

\* The only key under which headers holds a value for the header is key.
OnlyUnder(keys, key) ==
    /\ HeaderTruthy(headers.entries[key])
    /\ \A other \in keys \ {key} : headers.entries[other].t = "undefined"

\* C22: for a record, the X-Forwarded-For, X-Real-IP and User-Agent headers are
\* found whatever the letter case of their key.
C22_RecordKeysInAnyCase ==
    (op = "getUserAgent" /\ headers.kind = "Record") =>
        /\ \A key \in ForwardedForKeys :
                OnlyUnder(ForwardedForKeys, key) =>
                    IsTrimmed(FirstEntry(headers.entries[key].v), headerResult.clientIP)
        /\ \A key \in RealIPKeys :
                (OnlyUnder(RealIPKeys, key) /\ PresentValues(ForwardedForKeys) = {}) =>
                    headerResult.clientIP = headers.entries[key].v
        /\ \A key \in UserAgentKeys :
                OnlyUnder(UserAgentKeys, key) =>
                    headerResult.userAgent = headers.entries[key].v

(***************************************************************************)
(* Properties of the logger's log shipping.                                *)
(***************************************************************************)
\* The env variable is set to a value that is not blank.
NonBlank(x) == x.t = "string" /\ \E i \in 1..Len(x.v) : x.v[i] # " "

\* The code runs in a browser and one of the two env variables is not blank.
ShippingConfigured ==
    /\ window.isBrowser
    /\ \/ NonBlank(window.NEXT_PUBLIC_LOG_SHIPPING_URL)
       \/ NonBlank(window.REACT_APP_LOG_SHIPPING_URL)

\* The logger has been loaded in some environment.
LoggerLoaded == window # WindowNotLoaded

\* The logs in the queue of the shipper, none when there is no shipper.
Queued == IF logShipper.t = "object" THEN logShipper.logQueue ELSE <<>>

\* C23: log shipping is enabled if and only if the code runs in a browser and one
\* of the two env variables is set to a non-blank value: otherwise there is no
\* shipper, nothing is queued and nothing is sent; when it is enabled a written
\* log goes to the one shipper, of which at most one instance is ever created,
\* with the two unload handlers registered exactly once.
C23_ShippingIffConfigured ==
    LoggerLoaded =>
        /\ ~ShippingConfigured =>
                /\ logShipper = NoShipper
                /\ shipped.instances = 0
                /\ shipped.sent = <<>> /\ shipped.lost = <<>>
                /\ window.timers = {}
        /\ (ShippingConfigured /\ shipped.written > 0) =>
                /\ logShipper # NoShipper
                /\ shipped.instances = 1
        /\ shipped.instances <= 1
        /\ window.listeners.beforeunload = shipped.instances
        /\ window.listeners.pagehide = shipped.instances

\* C24: flush never throws and the promise it returns is never rejected,
\* whatever the cookie holds and whatever the transport does.
C24_FlushIsNeverRejected ==
    LoggerLoaded => shipped.rejections = 0

\* C27: at rest the queue holds at most BATCH_SIZE - 1 = 9 entries, at most one
\* flush timer is pending, and one is pending if and only if the queue is not
\* empty.
C27_QueueBelowBatchSizeAndTimerIffQueued ==
    LoggerLoaded =>
        /\ Len(Queued) <= 9
        /\ Len(Queued) < BATCH_SIZE
        /\ Cardinality(window.timers) <= 1
        /\ window.timers # {} <=> Queued # <<>>

\* The tenth log in a row is flushed at once: the queue is empty, no timer is
\* pending and the ten logs have gone out as one batch.
C27_Witness ==
    /\ LoggerLoaded
    /\ shipped.written = 10
    /\ logShipper # NoShipper
    /\ Queued = <<>>
    /\ window.timers = {}
    /\ Len(shipped.sent) = 1
    /\ Len(shipped.sent[1].logs) = 10

\* The logs of the batches handed to the transport, in the order of the handing.
RECURSIVE LogsOf(_)
LogsOf(batches) ==
    IF batches = <<>> THEN <<>> ELSE Head(batches).logs \o LogsOf(Tail(batches))

\* C28: every log passed to addLog is eventually handed to the transport, given
\* that a pending flush timer eventually fires, in exactly one batch: the logs
\* handed over followed by the logs still queued are the logs added, each once
\* and in the order of their addLog, and no batch has more than 10 logs.
C28_EveryLogIsSentOnceInOrder ==
    /\ [](logShipper.t = "object" =>
            /\ LogsOf(shipped.sent) \o Queued = [i \in 1..shipped.written |-> i]
            /\ \A b \in 1..Len(shipped.sent) : Len(shipped.sent[b].logs) <= 10)
    /\ []<>(Queued = <<>>)

(***************************************************************************)
(* Properties of AuthProvider.                                             *)
(***************************************************************************)
\* AuthProvider has rendered.
Rendered == op = "AuthProvider"

\* The pieces of an origin that are a port.
PortPieces == {":3000"}

\* The host of an origin: what stands between its scheme and its port.
HostOf(origin) == SelectSeq(Tail(origin), LAMBDA piece : piece \notin PortPieces)

\* The origin is HTTPS, or HTTP on the host localhost or 127.0.0.1.
SecureOrigin ==
    /\ authProvider.hasWindow
    /\ \/ Head(authProvider.origin) = "https://"
       \/ /\ Head(authProvider.origin) = "http://"
          /\ HostOf(authProvider.origin) \in {<<"localhost">>, <<"127.0.0.1">>}

\* The redirect URI in effect: the configured one, or the origin's '/callback'.
RedirectUriInEffect ==
    IF authProvider.config.redirectUri.t = "string" /\ authProvider.config.redirectUri.v # <<>>
    THEN authProvider.config.redirectUri.v
    ELSE IF authProvider.hasWindow THEN authProvider.origin \o <<"/callback">>
    ELSE <<>>

\* C25: AuthProvider renders Auth0ProviderBase only when config has a domain and a
\* clientId, the redirect URI in effect does not contain '/auth/callback', and the
\* origin is HTTPS or HTTP on the host localhost or 127.0.0.1; for every other
\* HTTP origin and on the server it renders the children without Auth0.
C25_Auth0OnlyOnSecureOrigin ==
    Rendered =>
        /\ authProvider.rendered \in {"children", "Auth0ProviderBase"}
        /\ authProvider.rendered = "Auth0ProviderBase" =>
                /\ authProvider.config.domain.t = "string"
                /\ authProvider.config.domain.v # <<>>
                /\ authProvider.config.clientId.t = "string"
                /\ authProvider.config.clientId.v # <<>>
                /\ \A i \in 1..Len(RedirectUriInEffect) :
                        RedirectUriInEffect[i] # "/auth/callback"
                /\ SecureOrigin
        /\ ~SecureOrigin => authProvider.rendered = "children"
====
